---- MODULE Spec2Model ----
(***************************************************************************)
(* Model of temporal-server-actions-count.py: the Prometheus scrape        *)
(* (scrape_metrics), the extraction of the "action" count                  *)
(* (get_action_count) and the sampling loop of main.                       *)
(*                                                                         *)
(* Time is counted in ticks, TicksPerSecond ticks to the second.  Sample   *)
(* values are integers (the code sums Python floats in sample order).      *)
(***************************************************************************)
EXTENDS Integers, Sequences, FiniteSets, TLC

VARIABLES
    pc,                    \* position of the single thread of control
    argv_window,           \* --time-window-seconds as given on the command line
    time_window,           \* main's parameter time_window
    included_namespace,    \* main's parameter included_namespace
    now,                   \* time.time(), in ticks
    start_time,            \* main's local start_time
    last_action_count,     \* main's local last_action_count
    total_action_delta,    \* main's local total_action_delta
    metrics_data,          \* main's local metrics_data (the last snapshot)
    current_action_count,  \* main's local current_action_count
    out,                   \* the lines printed, in order
    sampled,               \* history: the counts extracted so far, in order
    requests_made,         \* history: calls of requests.get
    scrape_calls,          \* history: calls of scrape_metrics
    last_response,         \* history: what the network gave the last scrape
    exc,                   \* the exception caught at line 88
    interrupted,           \* history: a KeyboardInterrupt was raised in main
    fetch_began,           \* history: when this iteration's fetch began
    overslept              \* history: ticks this iteration's sleep ran over

vars == <<pc, argv_window, time_window, included_namespace, now, start_time,
          last_action_count, total_action_delta, metrics_data,
          current_action_count, out, sampled, requests_made, scrape_calls,
          last_response, exc, interrupted, fetch_began, overslept>>

----------------------------------------------------------------------------
(* Bounds of the model *)

MaxFamilies == 1       \* families per generated snapshot
MaxSamples == 2        \* samples per generated family
MaxWindow == 4         \* largest --time-window-seconds tried
MaxLatency == 1        \* longest fetch latency, in ticks
MaxOversleep == 1      \* longest overshoot of time.sleep, in ticks
TicksPerSecond == 2    \* resolution of the clock

(* Program constants *)

SLEEP_SECONDS == 1     \* time.sleep(1)

None == "<None>"                       \* Python's None
EXCLUDED_NAMESPACE == "temporal_system"  \* default of excluded_namespace
ACTION_FAMILY == "action"              \* the family name compared at line 16
DEFAULT_INCLUDED_NAMESPACE == ""       \* argparse default of --included-namespace

----------------------------------------------------------------------------
(* Snapshots: what text_string_to_metric_families yields.  A snapshot is a *)
(* sequence of families; a family has a name and a sequence of samples; a  *)
(* sample has the value of its namespace label (None when the label is     *)
(* absent, as sample.labels.get('namespace') gives) and a value.           *)

FamilyNames == {ACTION_FAMILY, "action_latency"}
Filters == {"", "default", EXCLUDED_NAMESPACE, "other", None}

Sample(ns, v) == [namespace |-> ns, value |-> v]
Family(n, ss) == [name |-> n, samples |-> ss]

SeqsUpTo(S, n) == UNION {[1..k -> S] : k \in 0..n}

\* The samples generated families are made of: one of the excluded
\* namespace, two of another namespace, one without a namespace label.
SampleSet == { Sample(EXCLUDED_NAMESPACE, 5), Sample("default", 2),
               Sample("default", 3), Sample(None, 1) }
FamilySet == [name : FamilyNames, samples : SeqsUpTo(SampleSet, MaxSamples)]

\* The snapshot of the specification's extraction example, and two snapshots
\* that mix an "action" family with a family of another name.
ExampleSnapshot ==
    << Family(ACTION_FAMILY, << Sample(EXCLUDED_NAMESPACE, 5),
                                Sample("default", 3),
                                Sample("default", 2) >>) >>

MixedSnapshots ==
    { << Family("action_latency", << Sample("default", 7) >>),
         Family(ACTION_FAMILY, << Sample("default", 3), Sample("other", 4) >>) >>,
      << Family(ACTION_FAMILY, << Sample("default", 2) >>),
         Family("action_latency", << Sample("other", 9) >>),
         Family(ACTION_FAMILY, << Sample(EXCLUDED_NAMESPACE, 6), Sample(None, 1) >>) >> }

Snapshots == SeqsUpTo(FamilySet, MaxFamilies) \cup {ExampleSnapshot} \cup MixedSnapshots

----------------------------------------------------------------------------
(* get_action_count, lines 12-24 *)

\* Variant: a namespace equal to the inclusion filter passes even when it
\* is the excluded one.
QualifiesIgnoringExclusionOnMatch(namespace, included, excluded) ==
    \/ namespace = included
    \/ (namespace # excluded /\ included = "")

\* Variant: a sample without a namespace label never passes.
QualifiesRequiringLabel(namespace, included, excluded) ==
    /\ namespace # None
    /\ namespace # excluded
    /\ (included = "" \/ namespace = included)

\* Variant: the inclusion filter is not applied.
QualifiesIgnoringInclusion(namespace, included, excluded) ==
    namespace # excluded

\* The condition of lines 21-22.
Qualifies(namespace, included, excluded) ==
    /\ namespace # excluded
    /\ (included = "" \/ namespace = included)

\* The inner loop, lines 17-23: the values of the qualifying samples, added
\* in order.
RECURSIVE SumSamples(_, _, _)
SumSamples(samples, included, excluded) ==
    IF samples = << >> THEN 0
    ELSE LET sample == samples[Len(samples)]
             namespace == sample.namespace
         IN  SumSamples(SubSeq(samples, 1, Len(samples) - 1), included, excluded)
             + (IF Qualifies(namespace, included, excluded) THEN sample.value ELSE 0)

\* Variant: every family is scanned.
ScannedAnyFamily(family) == TRUE

\* The test of line 16.
Scanned(family) == family.name = ACTION_FAMILY

\* The outer loop, lines 14-24.
RECURSIVE get_action_count(_, _, _)
get_action_count(data, included, excluded) ==
    IF data = << >> THEN 0
    ELSE LET family == data[Len(data)]
         IN  get_action_count(SubSeq(data, 1, Len(data) - 1), included, excluded)
             + (IF Scanned(family)
                THEN SumSamples(family.samples, included, excluded)
                ELSE 0)

----------------------------------------------------------------------------
(* scrape_metrics, lines 6-10 *)

\* requests.get(prometheus_url) is called without a timeout argument: the
\* timeout requests then uses is None, which waits without limit.
REQUEST_TIMEOUT == None

\* A response body: the families its text denotes, or text the exposition
\* parser rejects.
WellFormed(families) == [parses |-> TRUE, families |-> families]
Malformed == [parses |-> FALSE, families |-> << >>]

\* The snapshots the monitored endpoint serves during a run: the counter
\* readings of the specification's accumulation example, and a snapshot
\* with no "action" family at all (a restarted server).
CounterSnapshot(v) ==
    << Family("action_latency", << Sample("default", 1) >>),
       Family(ACTION_FAMILY, << Sample(EXCLUDED_NAMESPACE, 5),
                                Sample("default", v) >>) >>

ServedSnapshots == {CounterSnapshot(v) : v \in {100, 107, 120}} \cup {<< >>}

StatusCodes == {200, 304, 404, 503}

\* What the network can give one requests.get.
Responses ==
    {[kind |-> "no_response"], [kind |-> "connection_error"]}
    \cup {[kind |-> "http", status |-> s, body |-> b] :
            s \in StatusCodes,
            b \in {WellFormed(f) : f \in ServedSnapshots} \cup {Malformed}}

\* response.raise_for_status(), line 9: raises for 4xx and 5xx only.
RaisesForStatus(status) == status >= 400 /\ status < 600

\* How a call of scrape_metrics ends, with the number of requests.get calls
\* it made.
Returned(v) == [outcome |-> "return", value |-> v, requests |-> 1]
Raised(e) == [outcome |-> "raise", value |-> e, requests |-> 1]
Blocked == [outcome |-> "blocked", value |-> None, requests |-> 1]

\* Variant: failures come back as an empty result instead of being raised.
scrape_metrics_returning_failure(resp) ==
    IF resp.kind = "http" /\ ~RaisesForStatus(resp.status) /\ resp.body.parses
    THEN Returned(resp.body.families)
    ELSE Returned(<< >>)

\* One call of scrape_metrics against a network that answers resp: it
\* returns the parsed families, raises, or never comes back.
scrape_metrics(resp) ==
    CASE resp.kind = "no_response" ->
            IF REQUEST_TIMEOUT = None THEN Blocked ELSE Raised("Timeout")
      [] resp.kind = "connection_error" -> Raised("ConnectionError")
      [] resp.kind = "http" ->
            IF RaisesForStatus(resp.status) THEN Raised("HTTPError")
            ELSE IF ~resp.body.parses THEN Raised("ValueError")
            ELSE Returned(resp.body.families)

----------------------------------------------------------------------------
(* The program: __main__ (lines 96-109) and main (lines 48-94) *)

\* An optional number is << >> when unset (Python's None, or a local not yet
\* assigned) and <<v>> when set to v.
Unset == << >>
Some(v) == << v >>
ValueOf(o) == o[1]

Line(kind, value) == [kind |-> kind, value |-> value]

WindowArgs == {Unset} \cup {Some(w) : w \in (0 - 1) .. MaxWindow}
IncludedArgs == {DEFAULT_INCLUDED_NAMESPACE, "default"}

SleepTicks == SLEEP_SECONDS * TicksPerSecond

NoResponse == [kind |-> "none"]

Init ==
    /\ pc = "parse_args"
    /\ argv_window \in WindowArgs
    /\ included_namespace \in IncludedArgs
    /\ time_window = 0
    /\ now = 0
    /\ start_time = Unset
    /\ last_action_count = Unset
    /\ total_action_delta = 0
    /\ metrics_data = << >>
    /\ current_action_count = 0
    /\ out = << >>
    /\ sampled = << >>
    /\ requests_made = 0
    /\ scrape_calls = 0
    /\ last_response = NoResponse
    /\ exc = ""
    /\ interrupted = FALSE
    /\ fetch_began = Unset
    /\ overslept = 0

\* Variant: the argument is optional and an absent window defaults to 1.
ParseArgsDefaultingWindow ==
    /\ pc = "parse_args"
    /\ IF argv_window = Unset
       THEN /\ pc' = "main"
            /\ time_window' = 1
            /\ UNCHANGED out
       ELSE IF ValueOf(argv_window) = 0
       THEN /\ pc' = "readme_exit"
            /\ out' = Append(out, Line("readme", 0))
            /\ UNCHANGED time_window
       ELSE /\ pc' = "main"
            /\ time_window' = ValueOf(argv_window)
            /\ UNCHANGED out
    /\ UNCHANGED <<argv_window, included_namespace, now, start_time,
                   last_action_count, total_action_delta, metrics_data,
                   current_action_count, sampled, requests_made, scrape_calls,
                   last_response, exc, interrupted, fetch_began, overslept>>

\* Lines 97-109: --time-window-seconds is required (argparse prints its usage
\* message and exits when it is absent); a window of 0 is falsy and prints the
\* README instead of running.
ParseArgs ==
    /\ pc = "parse_args"
    /\ IF argv_window = Unset
       THEN /\ pc' = "usage_exit"
            /\ out' = Append(out, Line("usage", 0))
            /\ UNCHANGED time_window
       ELSE IF ValueOf(argv_window) = 0
       THEN /\ pc' = "readme_exit"
            /\ out' = Append(out, Line("readme", 0))
            /\ UNCHANGED time_window
       ELSE /\ pc' = "main"
            /\ time_window' = ValueOf(argv_window)
            /\ UNCHANGED out
    /\ UNCHANGED <<argv_window, included_namespace, now, start_time,
                   last_action_count, total_action_delta, metrics_data,
                   current_action_count, sampled, requests_made, scrape_calls,
                   last_response, exc, interrupted, fetch_began, overslept>>

\* Lines 49-59.
Start ==
    /\ pc = "main"
    /\ out' = out \o << Line("starting", time_window),
                        Line("endpoint", 0),
                        IF included_namespace # ""
                        THEN Line("only_namespace", 0)
                        ELSE Line("all_namespaces", 0),
                        Line("please_wait", time_window) >>
    /\ last_action_count' = Unset
    /\ total_action_delta' = 0
    /\ start_time' = Some(now)
    /\ pc' = "scrape"
    /\ UNCHANGED <<argv_window, time_window, included_namespace, now,
                   metrics_data, current_action_count, sampled, requests_made,
                   scrape_calls, last_response, exc, interrupted,
                   fetch_began, overslept>>

\* Line 64 inside the try of line 62: one call of scrape_metrics, taking
\* latency ticks; an exception goes to the except clause of line 88.
Scrape ==
    /\ pc = "scrape"
    /\ \E resp \in Responses, latency \in 0 .. MaxLatency :
         LET r == scrape_metrics(resp) IN
         /\ last_response' = resp
         /\ scrape_calls' = scrape_calls + 1
         /\ requests_made' = requests_made + r.requests
         /\ CASE r.outcome = "return" ->
                    /\ metrics_data' = r.value
                    /\ now' = now + latency
                    /\ pc' = "extract"
                    /\ UNCHANGED exc
              [] r.outcome = "raise" ->
                    /\ exc' = r.value
                    /\ now' = now + latency
                    /\ pc' = "except"
                    /\ UNCHANGED metrics_data
              [] r.outcome = "blocked" ->
                    /\ pc' = "blocked"
                    /\ UNCHANGED <<metrics_data, now, exc>>
    /\ fetch_began' = Some(now)
    /\ overslept' = 0
    /\ UNCHANGED <<argv_window, time_window, included_namespace, start_time,
                   last_action_count, total_action_delta, interrupted,
                   current_action_count, out, sampled>>

\* Line 67.
Extract ==
    /\ pc = "extract"
    /\ current_action_count' =
           get_action_count(metrics_data, included_namespace, EXCLUDED_NAMESPACE)
    /\ sampled' = Append(sampled, current_action_count')
    /\ pc' = "account"
    /\ UNCHANGED <<argv_window, time_window, included_namespace, now,
                   start_time, last_action_count, total_action_delta,
                   metrics_data, out, requests_made, scrape_calls,
                   last_response, exc, interrupted, fetch_began, overslept>>

\* Variant: the first sample is diffed against a baseline of 0.
AccountFromZeroBaseline ==
    /\ pc = "account"
    /\ LET previous == IF last_action_count = Unset THEN 0
                       ELSE ValueOf(last_action_count)
           action_delta == current_action_count - previous
       IN  /\ total_action_delta' = total_action_delta + action_delta
           /\ out' = Append(out, Line("rate", action_delta))
    /\ pc' = "update"
    /\ UNCHANGED <<argv_window, time_window, included_namespace, now,
                   start_time, last_action_count, metrics_data,
                   current_action_count, sampled, requests_made, scrape_calls,
                   last_response, exc, interrupted, fetch_began, overslept>>

\* Variant: last_action_count is set before the delta is taken.
AccountUpdatingFirst ==
    /\ pc = "account"
    /\ IF last_action_count # Unset
       THEN LET action_delta == current_action_count - current_action_count
            IN  /\ total_action_delta' = total_action_delta + action_delta
                /\ out' = Append(out, Line("rate", action_delta))
       ELSE UNCHANGED <<total_action_delta, out>>
    /\ last_action_count' = Some(current_action_count)
    /\ pc' = "update"
    /\ UNCHANGED <<argv_window, time_window, included_namespace, now,
                   start_time, metrics_data,
                   current_action_count, sampled, requests_made, scrape_calls,
                   last_response, exc, interrupted, fetch_began, overslept>>

\* Variant: a negative delta (a counter reset) is clamped to 0.
AccountClampingNegative ==
    /\ pc = "account"
    /\ IF last_action_count # Unset
       THEN LET d == current_action_count - ValueOf(last_action_count)
                action_delta == IF d < 0 THEN 0 ELSE d
            IN  /\ total_action_delta' = total_action_delta + action_delta
                /\ out' = Append(out, Line("rate", action_delta))
       ELSE UNCHANGED <<total_action_delta, out>>
    /\ pc' = "update"
    /\ UNCHANGED <<argv_window, time_window, included_namespace, now,
                   start_time, last_action_count, metrics_data,
                   current_action_count, sampled, requests_made, scrape_calls,
                   last_response, exc, interrupted, fetch_began, overslept>>

\* Variant: the delta is taken in absolute value.
AccountAbsoluteDelta ==
    /\ pc = "account"
    /\ IF last_action_count # Unset
       THEN LET d == current_action_count - ValueOf(last_action_count)
                action_delta == IF d < 0 THEN 0 - d ELSE d
            IN  /\ total_action_delta' = total_action_delta + action_delta
                /\ out' = Append(out, Line("rate", action_delta))
       ELSE UNCHANGED <<total_action_delta, out>>
    /\ pc' = "update"
    /\ UNCHANGED <<argv_window, time_window, included_namespace, now,
                   start_time, last_action_count, metrics_data,
                   current_action_count, sampled, requests_made, scrape_calls,
                   last_response, exc, interrupted, fetch_began, overslept>>

\* Lines 70-76: with a previous count, the delta is added to the total and
\* printed as the rate (action_delta / 1).
Account ==
    /\ pc = "account"
    /\ IF last_action_count # Unset
       THEN LET action_delta == current_action_count - ValueOf(last_action_count)
            IN  /\ total_action_delta' = total_action_delta + action_delta
                /\ out' = Append(out, Line("rate", action_delta))
       ELSE UNCHANGED <<total_action_delta, out>>
    /\ pc' = "update"
    /\ UNCHANGED <<argv_window, time_window, included_namespace, now,
                   start_time, last_action_count, metrics_data,
                   current_action_count, sampled, requests_made, scrape_calls,
                   last_response, exc, interrupted, fetch_began, overslept>>

\* Line 79.
UpdateLast ==
    /\ pc = "update"
    /\ last_action_count' = Some(current_action_count)
    /\ pc' = "sleep"
    /\ UNCHANGED <<argv_window, time_window, included_namespace, now,
                   start_time, total_action_delta, metrics_data,
                   current_action_count, out, sampled, requests_made,
                   scrape_calls, last_response, exc, interrupted,
                   fetch_began, overslept>>

\* Variant: the sleep ends one second after the fetch of the iteration
\* began (the time the fetch took is taken off the sleep).
SleepCompensating ==
    /\ pc = "sleep"
    /\ \E oversleep \in 0 .. MaxOversleep :
         LET due == ValueOf(fetch_began) + SleepTicks
         IN  /\ now' = (IF due > now THEN due ELSE now) + oversleep
             /\ overslept' = oversleep
    /\ pc' = "check"
    /\ UNCHANGED <<argv_window, time_window, included_namespace, start_time,
                   last_action_count, total_action_delta, metrics_data,
                   current_action_count, out, sampled, requests_made,
                   scrape_calls, last_response, exc, interrupted,
                   fetch_began>>

\* Line 82: time.sleep(1) suspends for one second from the moment it is
\* called, and may run over.
Sleep ==
    /\ pc = "sleep"
    /\ \E oversleep \in 0 .. MaxOversleep :
         /\ now' = now + SleepTicks + oversleep
         /\ overslept' = oversleep
    /\ pc' = "check"
    /\ UNCHANGED <<argv_window, time_window, included_namespace, start_time,
                   last_action_count, total_action_delta, metrics_data,
                   current_action_count, out, sampled, requests_made,
                   scrape_calls, last_response, exc, interrupted,
                   fetch_began>>

\* Variant: the window must be exceeded, not just reached.
WindowReachedStrictly(elapsed) == elapsed > time_window * TicksPerSecond

\* Variant: the loop also ends once two seconds have elapsed.
WindowReachedAfterTwoSeconds(elapsed) ==
    elapsed >= time_window * TicksPerSecond \/ elapsed >= 2 * TicksPerSecond

\* The condition of line 85; the window is in seconds, the clock in ticks.
WindowReached(elapsed) == elapsed >= time_window * TicksPerSecond

\* Lines 85-86.
Check ==
    /\ pc = "check"
    /\ LET elapsed == now - ValueOf(start_time)
       IN  IF WindowReached(elapsed)
           THEN pc' = "report"
           ELSE pc' = "scrape"
    /\ UNCHANGED <<argv_window, time_window, included_namespace, now,
                   start_time, last_action_count, total_action_delta,
                   metrics_data, current_action_count, out, sampled,
                   requests_made, scrape_calls, last_response, exc,
                   interrupted,
                   fetch_began, overslept>>

\* Variant: the except clause continues the loop instead of breaking it.
ExceptContinuing ==
    /\ pc = "except"
    /\ out' = Append(out, Line("error", exc))
    /\ pc' = "scrape"
    /\ UNCHANGED <<argv_window, time_window, included_namespace, now,
                   start_time, last_action_count, total_action_delta,
                   metrics_data, current_action_count, sampled, requests_made,
                   scrape_calls, last_response, exc, interrupted,
                   fetch_began, overslept>>

\* Lines 88-90: any Exception raised in the try block is printed and ends
\* the loop.
Except ==
    /\ pc = "except"
    /\ out' = Append(out, Line("error", exc))
    /\ pc' = "report"
    /\ UNCHANGED <<argv_window, time_window, included_namespace, now,
                   start_time, last_action_count, total_action_delta,
                   metrics_data, current_action_count, sampled, requests_made,
                   scrape_calls, last_response, exc, interrupted,
                   fetch_began, overslept>>

\* Lines 93-94.
Report ==
    /\ pc = "report"
    /\ out' = out \o << Line("total", total_action_delta),
                        Line("completed", 0) >>
    /\ pc' = "done"
    /\ UNCHANGED <<argv_window, time_window, included_namespace, now,
                   start_time, last_action_count, total_action_delta,
                   metrics_data, current_action_count, sampled, requests_made,
                   scrape_calls, last_response, exc, interrupted,
                   fetch_began, overslept>>

\* The positions inside the try block of lines 62-86, a fetch that never
\* returns included.
InTry == {"scrape", "blocked", "extract", "account", "update", "sleep", "check"}

\* SIGINT raises KeyboardInterrupt in the main thread.  KeyboardInterrupt is
\* a BaseException, not an Exception: the clause of line 88 does not catch
\* it, no other handler exists, and it ends the process with a traceback.
Interrupt ==
    /\ pc \in InTry \cup {"except"}
    /\ interrupted' = TRUE
    /\ pc' = "aborted"
    /\ UNCHANGED <<argv_window, time_window, included_namespace, now,
                   start_time, last_action_count, total_action_delta,
                   metrics_data, current_action_count, out, sampled,
                   requests_made, scrape_calls, last_response, exc,
                   fetch_began, overslept>>

Next ==
    \/ ParseArgs
    \/ Start
    \/ Scrape
    \/ Extract
    \/ Account
    \/ UpdateLast
    \/ Sleep
    \/ Check
    \/ Except
    \/ Report
    \/ Interrupt

Spec == Init /\ [][Next]_vars

----------------------------------------------------------------------------
(* get_action_count on its own: every generated snapshot under every       *)
(* filter, from the call at line 67.                                       *)

ExtractInit ==
    /\ pc = "extract"
    /\ metrics_data \in Snapshots
    /\ included_namespace \in Filters
    /\ argv_window = Some(1)
    /\ time_window = 1
    /\ now = 0
    /\ start_time = Some(0)
    /\ last_action_count = Unset
    /\ total_action_delta = 0
    /\ current_action_count = 0
    /\ out = << >>
    /\ sampled = << >>
    /\ requests_made = 1
    /\ scrape_calls = 1
    /\ last_response = NoResponse
    /\ exc = ""
    /\ interrupted = FALSE
    /\ fetch_began = Unset
    /\ overslept = 0

ExtractNext == Extract

ExtractSpec == ExtractInit /\ [][ExtractNext]_vars

----------------------------------------------------------------------------
(* Properties of get_action_count (ExtractSpec) *)

\* The snapshot with the value of every sample of the excluded namespace
\* replaced by v.
WithExcludedValues(data, v) ==
    [i \in DOMAIN data |->
        Family(data[i].name,
               [j \in DOMAIN data[i].samples |->
                   IF data[i].samples[j].namespace = EXCLUDED_NAMESPACE
                   THEN Sample(EXCLUDED_NAMESPACE, v)
                   ELSE data[i].samples[j]])]

IsExcludedSample(sample) == sample.namespace = EXCLUDED_NAMESPACE
IsActionFamily(family) == family.name = ACTION_FAMILY

\* The snapshot without the samples of the excluded namespace.
WithoutExcluded(data) ==
    [i \in DOMAIN data |->
        Family(data[i].name,
               SelectSeq(data[i].samples, LAMBDA sm : ~IsExcludedSample(sm)))]

\* C1: whatever the snapshot and the inclusion filter (the filter
\* "temporal_system" included), the count returned is the count of the
\* snapshot with the temporal_system samples removed, and giving those
\* samples other values leaves it as it is.
C1_ExclusionInvariant ==
    pc = "account" =>
        /\ current_action_count =
             get_action_count(WithoutExcluded(metrics_data), included_namespace,
                              EXCLUDED_NAMESPACE)
        /\ \A v \in {0, 1, 50} :
             current_action_count =
               get_action_count(WithExcludedValues(metrics_data, v),
                                included_namespace, EXCLUDED_NAMESPACE)

\* A count was extracted under the filter "temporal_system" from an "action"
\* family that holds a temporal_system sample.
C1_Witness ==
    /\ pc = "account"
    /\ included_namespace = EXCLUDED_NAMESPACE
    /\ \E i \in DOMAIN metrics_data :
         /\ IsActionFamily(metrics_data[i])
         /\ \E j \in DOMAIN metrics_data[i].samples :
              IsExcludedSample(metrics_data[i].samples[j])
    /\ current_action_count = 0

\* The positions <<family, sample>> of the samples the specification calls
\* qualifying.
QualifyingPositions(data, include) ==
    UNION { { <<i, j>> : j \in { k \in DOMAIN data[i].samples :
                                   LET ns == data[i].samples[k].namespace
                                   IN  /\ ns # EXCLUDED_NAMESPACE
                                       /\ (include = "" \/ ns = include) } } :
            i \in { f \in DOMAIN data : data[f].name = "action" } }

RECURSIVE SumAt(_, _)
SumAt(positions, data) ==
    IF positions = {} THEN 0
    ELSE LET p == CHOOSE q \in positions : TRUE
         IN  data[p[1]].samples[p[2]].value + SumAt(positions \ {p}, data)

\* C2: the count returned is the sum of the values of the qualifying samples
\* of the "action" families; for the samples (temporal_system,5),
\* (default,3), (default,2) it is 5 under the filters "" and "default".
C2_SumOfQualifying ==
    pc = "account" =>
        /\ current_action_count =
             SumAt(QualifyingPositions(metrics_data, included_namespace),
                   metrics_data)
        /\ (metrics_data = ExampleSnapshot /\ included_namespace \in {"", "default"})
               => current_action_count = 5

\* The example snapshot was counted under the filter "default".
C2_Witness ==
    /\ pc = "account"
    /\ metrics_data = ExampleSnapshot
    /\ included_namespace = "default"
    /\ current_action_count = 5

OnlyActionFamilies(data) == SelectSeq(data, IsActionFamily)

\* C3: families of another name contribute nothing (dropping them leaves the
\* count as it is), and the count is 0 when no family is named "action" or
\* no sample qualifies.
C3_OnlyActionFamilies ==
    pc = "account" =>
        /\ current_action_count =
             get_action_count(OnlyActionFamilies(metrics_data),
                              included_namespace, EXCLUDED_NAMESPACE)
        /\ OnlyActionFamilies(metrics_data) = << >> => current_action_count = 0
        /\ QualifyingPositions(metrics_data, included_namespace) = {}
               => current_action_count = 0

\* A positive count was extracted from a snapshot that also holds a
\* non-empty family of another name.
C3_Witness ==
    /\ pc = "account"
    /\ current_action_count > 0
    /\ \E i \in DOMAIN metrics_data :
         /\ ~IsActionFamily(metrics_data[i])
         /\ metrics_data[i].samples # << >>

----------------------------------------------------------------------------
(* Properties of the sampling loop (Spec) *)

RECURSIVE SumSeq(_)
SumSeq(q) == IF q = << >> THEN 0 ELSE q[1] + SumSeq(Tail(q))

\* The successive differences c2-c1, ..., cn-c(n-1) of c1..cn.
Deltas(c) == [i \in 1 .. (Len(c) - 1) |-> c[i + 1] - c[i]]

IsRateLine(line) == line.kind = "rate"
IsTotalLine(line) == line.kind = "total"

\* The rate observations printed so far, and the totals printed so far.
Observations ==
    LET lines == SelectSeq(out, IsRateLine)
    IN  [i \in DOMAIN lines |-> lines[i].value]

Totals ==
    LET lines == SelectSeq(out, IsTotalLine)
    IN  [i \in DOMAIN lines |-> lines[i].value]

\* C4: once a sample is accounted, the observations printed are the
\* successive differences of the sampled counts, in order, and the
\* accumulated total is their sum; the total printed at the end is that sum
\* (for 100, 107, 107, 120: observations 7, 0, 13 and total 20).
C4_DeltaAccumulation ==
    /\ pc \notin {"account", "aborted"} =>
          /\ Observations = Deltas(sampled)
          /\ total_action_delta = SumSeq(Observations)
    /\ pc = "done" =>
          /\ Totals = << SumSeq(Observations) >>
          /\ sampled = <<100, 107, 107, 120>> =>
                (Observations = <<7, 0, 13>> /\ Totals = <<20>>)

\* A run sampled 100, 107, 107, 120 and reported.
C4_Witness ==
    /\ pc = "done"
    /\ sampled = <<100, 107, 107, 120>>
    /\ Observations = <<7, 0, 13>>
    /\ Totals = <<20>>

\* C5: up to and including the first successful sample no rate observation
\* is printed and total_action_delta stays 0; the first sample only sets
\* last_action_count.
C5_FirstIntervalSuppression ==
    Len(sampled) <= 1 =>
        /\ Observations = << >>
        /\ total_action_delta = 0
        /\ pc \in {"account", "update"} => last_action_count = Unset
        /\ (Len(sampled) = 1 /\ pc \in {"sleep", "check", "scrape", "except", "report", "done"})
               => last_action_count = Some(sampled[1])

\* The first sample, a positive count, has been taken and stored.
C5_Witness ==
    /\ pc = "sleep"
    /\ Len(sampled) = 1
    /\ sampled[1] > 0
    /\ last_action_count = Some(sampled[1])
    /\ Observations = << >>
    /\ total_action_delta = 0

\* C6: in a run without a failed fetch and without an interrupt, the loop
\* is left only by a check that sees an elapsed time of at least the window,
\* no earlier check saw that much, and a finished run has printed exactly
\* one total line (no run ever prints more).
C6_WindowTermination ==
    /\ (pc \in {"report", "done"} /\ exc = "") =>
          now - ValueOf(start_time) >= time_window * TicksPerSecond
    /\ (pc = "scrape" /\ scrape_calls > 0) =>
          now - ValueOf(start_time) < time_window * TicksPerSecond
    /\ Len(Totals) <= 1
    /\ pc = "done" => Len(Totals) = 1

\* A run with a window of 3 seconds whose three fetches all succeeded has
\* reported.
C6_Witness ==
    /\ pc = "done"
    /\ exc = ""
    /\ time_window = 3
    /\ Len(sampled) = 3
    /\ now - ValueOf(start_time) >= 3 * TicksPerSecond
    /\ Len(Totals) = 1

\* C7: once a fetch has failed, it is the last fetch of the run (every fetch
\* before it gave a sample), last_action_count and total_action_delta are
\* what the samples before it left, and the one total line printed reports
\* the sum of the deltas of those samples: 0 when the failing fetch is the
\* first or the second.
C7_FailFast ==
    exc # "" =>
        /\ scrape_calls = Len(sampled) + 1
        /\ total_action_delta = SumSeq(Deltas(sampled))
        /\ last_action_count =
             (IF sampled = << >> THEN Unset ELSE Some(sampled[Len(sampled)]))
        /\ scrape_calls <= 2 => total_action_delta = 0
        /\ pc = "done" => Totals = << SumSeq(Deltas(sampled)) >>

\* The third fetch failed after two samples that differ, and the run has
\* reported.
C7_Witness ==
    /\ pc = "done"
    /\ exc # ""
    /\ scrape_calls = 3
    /\ Len(sampled) = 2
    /\ total_action_delta # 0
    /\ Totals = << total_action_delta >>

\* C8: an interrupt at any point of the sampling loop still leads to the
\* final total line, with the total accumulated so far, being printed.
C8_InterruptEmitsTotal ==
    (interrupted /\ pc \in {"done", "aborted"}) => Totals = << total_action_delta >>

\* C9: a fetch that gets no response ends in a failure outcome; no fetch
\* waits forever.
C9_FetchBounded == pc # "blocked"

\* C10 as stated: scrape_metrics never raises to its caller.
C10_FetcherNeverRaises == exc = "" /\ pc # "except"

\* The responses on which scrape_metrics fails: a network error, a 4xx or
\* 5xx status, a body the parser rejects.
IsErrorResponse(resp) ==
    \/ resp.kind = "connection_error"
    \/ /\ resp.kind = "http"
       /\ (resp.status \in 400 .. 599 \/ ~resp.body.parses)

\* C10 as amended: scrape_metrics makes one retrieval per call and has no
\* failure return value: on a network error, a 4xx/5xx status or a rejected
\* body it raises to main (which catches it), and it raises on nothing else.
C10_FetcherRaisesOnError ==
    /\ requests_made = scrape_calls
    /\ IsErrorResponse(last_response) <=> exc # ""
    /\ (pc = "extract" /\ last_response.kind = "http") =>
          metrics_data = last_response.body.families

\* A fetch answered 404 has raised into the except clause of main.
C10_Witness ==
    /\ pc = "except"
    /\ last_response.kind = "http"
    /\ last_response.status = 404
    /\ exc = "HTTPError"
    /\ requests_made = scrape_calls

\* C11 as stated: the sleep of an iteration, its overshoot apart, ends one
\* second after the fetch of that iteration began.
C11_SleepEndsOneSecondAfterFetchBegan ==
    pc = "check" => now - overslept - ValueOf(fetch_began) = SleepTicks

\* C11 as amended: time.sleep(1) lasts one second, its overshoot apart, from
\* the moment it is called, after the fetch and the accounting; the time the
\* fetch took is not taken off, so the sleep ends at least one second after
\* the fetch began and the next fetch starts no earlier.
C11_SleepNotCompensated ==
    [][(pc = "sleep" /\ pc' = "check") =>
          /\ now' - overslept' = now + SleepTicks
          /\ now' - ValueOf(fetch_began') >= SleepTicks + (now - ValueOf(fetch_began))]_vars

\* A sleep that did not run over has ended one second and one tick after the
\* fetch of its iteration began: the fetch took one tick, less than a second.
C11_Witness ==
    /\ pc = "check"
    /\ overslept = 0
    /\ 1 < TicksPerSecond
    /\ now - ValueOf(fetch_began) = SleepTicks + 1

\* C12: with --time-window-seconds absent the program prints the usage
\* message and exits: main is never entered, start_time is never set, no
\* fetch is made and no total line is printed.  (A window of 0 prints the
\* README and exits the same way.)
C12_NoWindowNoMonitoring ==
    /\ argv_window = Unset =>
          /\ pc \in {"parse_args", "usage_exit"}
          /\ start_time = Unset
          /\ scrape_calls = 0
          /\ requests_made = 0
          /\ Totals = << >>
          /\ pc = "usage_exit" => out = << Line("usage", 0) >>
    /\ (argv_window # Unset /\ pc = "readme_exit") =>
          /\ ValueOf(argv_window) = 0
          /\ start_time = Unset
          /\ scrape_calls = 0
          /\ out = << Line("readme", 0) >>

\* The program has exited on the absent argument.
C12_Witness ==
    /\ argv_window = Unset
    /\ pc = "usage_exit"
    /\ out = << Line("usage", 0) >>
    /\ start_time = Unset

\* C13: when a sample is lower than the previous one, the observation
\* printed for it is the negative difference, that difference is added to
\* total_action_delta as it is (the total goes down), and last_action_count
\* is then set to the lower sample.
C13_NegativeDeltaSubtracted ==
    LET n == Len(sampled) IN
    (n >= 2 /\ sampled[n] < sampled[n - 1]) =>
        /\ pc = "update" =>
              /\ out[Len(out)] = Line("rate", sampled[n] - sampled[n - 1])
              /\ total_action_delta =
                    SumSeq(Deltas(SubSeq(sampled, 1, n - 1)))
                      + (sampled[n] - sampled[n - 1])
              /\ total_action_delta < SumSeq(Deltas(SubSeq(sampled, 1, n - 1)))
        /\ pc \in {"sleep", "check", "scrape", "except", "report", "done"} =>
              /\ last_action_count = Some(sampled[n])
              /\ Observations[n - 1] < 0
        /\ pc = "done" => Totals = << sampled[n] - sampled[1] >>

\* A run whose second sample was lower than its first has reported a
\* negative total.
C13_Witness ==
    /\ pc = "done"
    /\ Len(sampled) = 2
    /\ sampled[2] < sampled[1]
    /\ Observations = << sampled[2] - sampled[1] >>
    /\ Totals[1] < 0
    /\ last_action_count = Some(sampled[2])

LoopOrder ==
    { <<"scrape", "extract">>, <<"extract", "account">>,
      <<"account", "update">>, <<"update", "sleep">>, <<"sleep", "check">>,
      <<"check", "scrape">>, <<"check", "report">> }

\* C15: the steps of an iteration are taken one at a time in the order
\* fetch, extract, account and emit, set last_action_count, sleep, check.
\* The observation is printed, with the delta added to the total, before
\* last_action_count is set and before the sleep; a fetch starts only at the
\* top of the loop, after the sleep and the check of the iteration before.
C15_SequentialOrder ==
    [][ /\ (pc \in {"scrape", "extract", "account", "update", "sleep", "check"}
              /\ pc' \notin {pc, "aborted", "except", "blocked"})
           => <<pc, pc'>> \in LoopOrder
        /\ (pc = "account" /\ pc' = "update") =>
              /\ last_action_count' = last_action_count
              /\ Len(sampled) >= 2 =>
                    /\ out' = Append(out, Line("rate", current_action_count
                                                       - ValueOf(last_action_count)))
                    /\ total_action_delta' = total_action_delta
                          + (current_action_count - ValueOf(last_action_count))
        /\ pc \in {"update", "sleep", "check"} =>
              (out' = out /\ total_action_delta' = total_action_delta)
        /\ (pc = "update" /\ pc' = "sleep") =>
              /\ last_action_count' = Some(current_action_count)
              /\ Len(Observations) = Len(sampled) - 1
        /\ (pc = "sleep" /\ pc' = "check") => now' >= now + SleepTicks
        /\ scrape_calls' # scrape_calls =>
              /\ pc = "scrape"
              /\ scrape_calls' = scrape_calls + 1
              /\ pc' \in {"extract", "except", "blocked"}
        /\ now' # now => pc \in {"scrape", "sleep"} ]_vars

\* The second iteration has run through its check and the third fetch is
\* about to start: two samples, one observation.
C15_Witness ==
    /\ pc = "scrape"
    /\ scrape_calls = 2
    /\ Len(sampled) = 2
    /\ Len(Observations) = 1
    /\ last_action_count = Some(sampled[2])

\* C16 as stated: in every state where last_action_count is set, the total
\* is last_action_count minus the first sample, and last_action_count is the
\* latest sample extracted.
C16_TelescopingInEveryState ==
    last_action_count # Unset =>
        /\ total_action_delta = ValueOf(last_action_count) - sampled[1]
        /\ ValueOf(last_action_count) = sampled[Len(sampled)]

\* The positions of main outside lines 67-79, where a sample is extracted
\* but not yet accounted and stored.
BetweenIterations == {"scrape", "blocked", "sleep", "check", "except", "report", "done"}

\* C16 as amended: whenever control is outside lines 67-79 and
\* last_action_count is set, the total is last_action_count minus the first
\* sample and last_action_count is the latest sample extracted; the total
\* printed at the end is the last sample minus the first.
C16_Telescoping ==
    (pc \in BetweenIterations /\ last_action_count # Unset) =>
        /\ total_action_delta = ValueOf(last_action_count) - sampled[1]
        /\ ValueOf(last_action_count) = sampled[Len(sampled)]
        /\ pc = "done" => Totals = << sampled[Len(sampled)] - sampled[1] >>

\* A run of three samples, the middle one the highest, has reported the
\* last minus the first.
C16_Witness ==
    /\ pc = "done"
    /\ Len(sampled) = 3
    /\ sampled[2] > sampled[3]
    /\ sampled[3] > sampled[1]
    /\ Totals = << sampled[3] - sampled[1] >>

Max(a, b) == IF a >= b THEN a ELSE b

\* C17 as stated: in every state the observations printed number
\* max(0, samples - 1).
C17_ObservationCountInEveryState ==
    Len(Observations) = Max(0, Len(sampled) - 1)

\* C17 as amended: except between the extraction of a sample (line 67) and
\* the print of its observation (line 76), an interrupt there included, the
\* observations printed number max(0, samples - 1); a run that finishes with
\* at most one sample has printed none and reports a total of 0.
C17_ObservationCount ==
    /\ pc \notin {"account", "aborted"} =>
          Len(Observations) = Max(0, Len(sampled) - 1)
    /\ pc = "aborted" =>
          Len(Observations) \in {Max(0, Len(sampled) - 1), Max(0, Len(sampled) - 2)}
    /\ (pc = "done" /\ Len(sampled) <= 1) =>
          (Observations = << >> /\ Totals = <<0>>)

\* A run whose second fetch failed has reported 0 without any observation.
C17_Witness ==
    /\ pc = "done"
    /\ Len(sampled) = 1
    /\ scrape_calls = 2
    /\ Observations = << >>
    /\ Totals = <<0>>

\* C18: a run of main that reaches its report has made at least one fetch,
\* exactly one when the window is negative; with a window W >= 1 a run makes
\* at most W fetches and prints at most W - 1 observations.
C18_IterationBound ==
    /\ pc \in {"report", "done"} => scrape_calls >= 1
    /\ (pc \in {"report", "done"} /\ time_window < 0) => scrape_calls = 1
    /\ time_window >= 1 =>
          /\ scrape_calls <= time_window
          /\ Len(Observations) <= time_window - 1

\* A run with the largest window has made as many fetches as the window
\* has seconds and printed one observation less.
C18_Witness ==
    /\ pc = "done"
    /\ time_window = MaxWindow
    /\ scrape_calls = time_window
    /\ Len(Observations) = time_window - 1

----------------------------------------------------------------------------
(* Samples without a namespace label (ExtractSpec) *)

IsUnlabelledSample(sample) == sample.namespace = None

\* The snapshot without the samples that carry no namespace label.
WithoutUnlabelled(data) ==
    [i \in DOMAIN data |->
        Family(data[i].name,
               SelectSeq(data[i].samples, LAMBDA sm : ~IsUnlabelledSample(sm)))]

\* The sum of the values of the unlabelled samples of the "action" families.
UnlabelledSum(data) ==
    SumAt(UNION { { <<i, j>> : j \in { k \in DOMAIN data[i].samples :
                                        IsUnlabelledSample(data[i].samples[k]) } } :
                  i \in { f \in DOMAIN data : IsActionFamily(data[f]) } },
          data)

\* What the unlabelled samples add to the count just extracted.
UnlabelledContribution ==
    current_action_count
      - get_action_count(WithoutUnlabelled(metrics_data), included_namespace,
                         EXCLUDED_NAMESPACE)

====
